---------------------------- MODULE Spec2Model ----------------------------
(***************************************************************************)
(* A model of THE.py: the Problem class (finite-difference Poisson system  *)
(* with Dirichlet elimination, reordering, dense Cholesky, fill-in ratio)  *)
(* and the experiment drivers that use an instance.                        *)
(*                                                                         *)
(* Representation choices.                                                 *)
(*  - A scipy sparse matrix is a record [shape, data]: data is a function  *)
(*    from the stored positions <<row, col>> to their nonzero values, so   *)
(*    that .nnz is the number of stored positions.  Assigning 0 to a       *)
(*    position of a lil_matrix removes it from the storage.                *)
(*  - Floating point values are kept symbolic.  math.sin(x*y[*z]) at grid  *)
(*    point p is the symbol <<"u0", p>>, f(x,y[,z])*spacing**2 at p is the *)
(*    symbol <<"fh2", p>>, and a right-hand side entry is a linear         *)
(*    combination of symbols with integer coefficients (a function from    *)
(*    the symbols with a nonzero coefficient to that coefficient).         *)
(*  - The dense factor returned by numpy.linalg.cholesky is kept as the    *)
(*    signs of its nonzero entries, computed column by column from         *)
(*    L[i,j] = (A[i,j] - SUM_{k<j} L[i,k]*L[j,k]) / L[j,j].                *)
(*  - Wall-clock times are not modelled.                                   *)
(***************************************************************************)
EXTENDS Integers, Sequences, FiniteSets, TLC

\* Largest grid resolution n_elements explored.
MaxN == 4

\* The dimensions a caller may pass: 2 and 3 are supported, 1 and 4 are not.
Dimensions == {1, 2, 3, 4}

\* Python's None, and an attribute not assigned yet.  Every value an attribute
\* holds is a record, and these two are told from the others by their field.
None == [none |-> TRUE]
Unset == [unset |-> TRUE]
IsNone(x) == "none" \in DOMAIN x

\* a numpy array, as the record of its entries
ndarray(f) == [array |-> f]

VARIABLES
    self,    \* the Problem instance: a record of its attributes
    pc,      \* position inside / after Problem.__init__
    raised,  \* the function that raised, when pc = "error"
    rcm_order, \* the ordering computed inside reorder()
    ret,     \* the last call made on the constructed instance and its result
    snap     \* the instance and results at the first fill_in_ratio call of the
             \* current run of fill_in_ratio / solve_cholesky calls

vars == <<self, pc, raised, rcm_order, ret, snap>>

-----------------------------------------------------------------------------
\* f itself, built as a table at once (a function written [x \in S |-> e] is
\* otherwise evaluated at each use)
Table(f) == f @@ <<>>

\* later, once first has been evaluated: the two halves of a loop are
\* evaluated in program order
Then(first, later) == IF DOMAIN first = {} THEN later ELSE later

-----------------------------------------------------------------------------
(* Sparse matrices (scipy.sparse.lil_matrix / csr_matrix) *)

\* lil_matrix((num_points, num_points)): nothing stored
lil_matrix(num_points) == [shape |-> num_points, data |-> Table([e \in {} |-> 0])]

\* A[p, q]
Get(A, p, q) == IF <<p, q>> \in DOMAIN A.data THEN A.data[<<p, q>>] ELSE 0

\* A[p, q] = v
SetItem(A, p, q, v) ==
    LET D == IF v = 0 THEN DOMAIN A.data \ {<<p, q>>}
                      ELSE DOMAIN A.data \cup {<<p, q>>}
    IN  [A EXCEPT !.data =
            Table([e \in D |-> IF e = <<p, q>> THEN v ELSE A.data[e]])]

\* A[p, :] = 0
ZeroRow(A, p) ==
    [A EXCEPT !.data =
        Table([e \in {d \in DOMAIN A.data : d[1] # p} |-> A.data[e]])]

\* A[:, p] = 0
ZeroCol(A, p) ==
    [A EXCEPT !.data =
        Table([e \in {d \in DOMAIN A.data : d[2] # p} |-> A.data[e]])]

\* A.nnz
nnz(A) == Cardinality(DOMAIN A.data)

-----------------------------------------------------------------------------
(* Symbolic right-hand side values *)

Zero == Table([s \in {} |-> 0])

\* math.sin(x * y [* z]) at grid point p
U0(p) == Table([s \in {<<"u0", p>>} |-> 1])

\* f(x, y [, z]) * spacing**2 at grid point p
FH2(p) == Table([s \in {<<"fh2", p>>} |-> 1])

Coef(a, s) == IF s \in DOMAIN a THEN a[s] ELSE 0

\* a - c * b
LinSubScaled(a, c, b) ==
    LET D == DOMAIN a \cup DOMAIN b
        v(s) == Coef(a, s) - c * Coef(b, s)
    IN  Table([s \in {t \in D : v(t) # 0} |-> v(s)])

\* np.zeros(num_points)
zeros(num_points) == Table([p \in 0 .. num_points - 1 |-> Zero])

-----------------------------------------------------------------------------
(* Grid indexing *)

\* get_neighbors_2d without its tests on j: the left and right neighbours
\* wrap around to the adjacent grid line
get_neighbors_2d_wrap(p, n_elements) ==
    LET i == p \div n_elements
    IN  (IF p > 0 THEN <<p - 1>> ELSE <<>>)
        \o (IF p < n_elements * n_elements - 1 THEN <<p + 1>> ELSE <<>>)
        \o (IF i > 0 THEN <<p - n_elements>> ELSE <<>>)
        \o (IF i < n_elements - 1 THEN <<p + n_elements>> ELSE <<>>)

get_neighbors_2d(p, n_elements) ==
    LET i == p \div n_elements
        j == p % n_elements
    IN  (IF j > 0 THEN <<p - 1>> ELSE <<>>)
        \o (IF j < n_elements - 1 THEN <<p + 1>> ELSE <<>>)
        \o (IF i > 0 THEN <<p - n_elements>> ELSE <<>>)
        \o (IF i < n_elements - 1 THEN <<p + n_elements>> ELSE <<>>)

get_neighbors_3d(p, n_elements) ==
    LET n2 == n_elements * n_elements
        i == p \div n2
        j == (p % n2) \div n_elements
        k == p % n_elements
    IN  (IF k > 0 THEN <<p - 1>> ELSE <<>>)
        \o (IF k < n_elements - 1 THEN <<p + 1>> ELSE <<>>)
        \o (IF j > 0 THEN <<p - n_elements>> ELSE <<>>)
        \o (IF j < n_elements - 1 THEN <<p + n_elements>> ELSE <<>>)
        \o (IF i > 0 THEN <<p - n2>> ELSE <<>>)
        \o (IF i < n_elements - 1 THEN <<p + n2>> ELSE <<>>)

-----------------------------------------------------------------------------
(* Problem.build_matrix_and_rhs *)

\* the boundary test of the 2D loop body
on_boundary_2d(i, j, n_elements) ==
    i = 0 \/ i = n_elements - 1 \/ j = 0 \/ j = n_elements - 1

\* the boundary test of the 3D loop body
on_boundary_3d(i, j, k, n_elements) ==
    \/ i = 0 \/ i = n_elements - 1
    \/ j = 0 \/ j = n_elements - 1
    \/ k = 0 \/ k = n_elements - 1

\* whether the assembly loop of the given dimension takes its boundary branch
\* at p; the loops visit p = i*n + j (2D), p = i*n*n + j*n + k (3D)
on_boundary(p, n_elements, dimension) ==
    IF dimension = 2
    THEN on_boundary_2d(p \div n_elements, p % n_elements, n_elements)
    ELSE on_boundary_3d(p \div (n_elements * n_elements),
                        (p % (n_elements * n_elements)) \div n_elements,
                        p % n_elements, n_elements)

\* self.get_neighbors_2d / self.get_neighbors_3d, as called by each branch
get_neighbors(p, n_elements, dimension) ==
    IF dimension = 2 THEN get_neighbors_2d(p, n_elements)
                     ELSE get_neighbors_3d(p, n_elements)

\* the 2D diagonal copied into the 3D branch
interior_diagonal_copied(dimension) == 4

\* A[p, p] of an interior point: 4 in the 2D branch, 6 in the 3D branch
interior_diagonal(dimension) == IF dimension = 2 THEN 4 ELSE 6

\* for neighbor_p in neighbors: A[p, neighbor_p] = -1
RECURSIVE set_neighbors(_, _, _, _)
set_neighbors(A, p, neighbors, m) ==
    IF m > Len(neighbors) THEN A
    ELSE set_neighbors(SetItem(A, p, neighbors[m], -1), p, neighbors, m + 1)

\* one iteration of the assembly loop, on the state
\* st = [A, f_vector, boundary_nodes]
assemble_point(st, p, n_elements, dimension) ==
    IF on_boundary(p, n_elements, dimension)
    THEN [A |-> SetItem(st.A, p, p, 1),
          f_vector |-> [st.f_vector EXCEPT ![p] = U0(p)],
          boundary_nodes |-> Append(st.boundary_nodes, p)]
    ELSE [A |-> set_neighbors(SetItem(st.A, p, p, interior_diagonal(dimension)),
                              p, get_neighbors(p, n_elements, dimension), 1),
          f_vector |-> [st.f_vector EXCEPT ![p] = FH2(p)],
          boundary_nodes |-> st.boundary_nodes]

\* the nested for loops over i, j (, k): the iterations for p = lo .. hi in
\* increasing order (the range is run as its first half, then its second)
RECURSIVE assemble_loop(_, _, _, _, _)
assemble_loop(st, lo, hi, n_elements, dimension) ==
    IF lo > hi THEN st
    ELSE IF lo = hi THEN assemble_point(st, lo, n_elements, dimension)
    ELSE LET mid  == (lo + hi) \div 2
             half == assemble_loop(st, lo, mid, n_elements, dimension)
         IN  Then(half, assemble_loop(half, mid + 1, hi, n_elements, dimension))

\* f_vector[q] += A[q, p] * u_0
adjust_rhs_added(f_q, A_qp, u_0) == LinSubScaled(f_q, 0 - A_qp, u_0)

\* f_vector[q] -= A[q, p] * u_0
adjust_rhs(f_q, A_qp, u_0) == LinSubScaled(f_q, A_qp, u_0)

\* for q in neighbors: if A[q, p] != 0: f_vector[q] -= A[q, p] * u_0
RECURSIVE adjust_neighbors(_, _, _, _, _, _)
adjust_neighbors(f_vector, A, p, u_0, neighbors, m) ==
    IF m > Len(neighbors) THEN f_vector
    ELSE LET q == neighbors[m]
             g == IF Get(A, q, p) # 0
                  THEN [f_vector EXCEPT
                          ![q] = adjust_rhs(f_vector[q], Get(A, q, p), u_0)]
                  ELSE f_vector
         IN  adjust_neighbors(g, A, p, u_0, neighbors, m + 1)

\* the body of the adjustment loop for p: u_0 = f_vector[p], then the
\* neighbours of p
adjust_point(f_vector, A, p, n_elements, dimension) ==
    adjust_neighbors(f_vector, A, p, f_vector[p],
                     get_neighbors(p, n_elements, dimension), 1)

\* for p in boundary_nodes: the iterations for boundary_nodes[lo .. hi], in
\* list order
RECURSIVE adjust_loop(_, _, _, _, _, _, _)
adjust_loop(f_vector, A, boundary_nodes, lo, hi, n_elements, dimension) ==
    IF lo > hi THEN f_vector
    ELSE IF lo = hi
    THEN adjust_point(f_vector, A, boundary_nodes[lo], n_elements, dimension)
    ELSE LET mid  == (lo + hi) \div 2
             half == adjust_loop(f_vector, A, boundary_nodes, lo, mid,
                                 n_elements, dimension)
         IN  Then(half, adjust_loop(half, A, boundary_nodes, mid + 1, hi,
                                    n_elements, dimension))

\* A[p, :] = 0; A[p, p] = 1, the column left as it is
zero_out_row_only(A, p) == SetItem(ZeroRow(A, p), p, p, 1)

\* A[p, :] = 0; A[:, p] = 0; A[p, p] = 1
zero_out(A, p) == SetItem(ZeroCol(ZeroRow(A, p), p), p, p, 1)

\* for p in boundary_nodes: zero out row and column p, for
\* boundary_nodes[lo .. hi] in list order
RECURSIVE zero_loop(_, _, _, _)
zero_loop(A, boundary_nodes, lo, hi) ==
    IF lo > hi THEN A
    ELSE IF lo = hi THEN zero_out(A, boundary_nodes[lo])
    ELSE LET mid  == (lo + hi) \div 2
             half == zero_loop(A, boundary_nodes, lo, mid)
         IN  Then(half, zero_loop(half, boundary_nodes, mid + 1, hi))

\* n_elements * n_elements [* n_elements]
num_points_of(n_elements, dimension) ==
    IF dimension = 2 THEN n_elements * n_elements
                     ELSE n_elements * n_elements * n_elements

\* build_matrix_and_rhs(n_elements, dimension): the pair it returns.
\* Any other dimension prints "Invalid dimension" and returns (None, None).
build_matrix_and_rhs(n_elements, dimension) ==
    IF dimension \in {2, 3}
    THEN LET num_points == num_points_of(n_elements, dimension)
             st0 == [A |-> lil_matrix(num_points),
                     f_vector |-> zeros(num_points),
                     boundary_nodes |-> <<>>]
             st1 == assemble_loop(st0, 0, num_points - 1, n_elements, dimension)
             f   == adjust_loop(st1.f_vector, st1.A, st1.boundary_nodes,
                                1, Len(st1.boundary_nodes), n_elements, dimension)
             A   == zero_loop(st1.A, st1.boundary_nodes,
                              1, Len(st1.boundary_nodes))
         IN  [matrix |-> A, rhs |-> ndarray(f)]
    ELSE [matrix |-> None, rhs |-> None]

-----------------------------------------------------------------------------
(* Problem.reorder *)

RECURSIVE sorted(_)
\* the elements of a finite set of integers in increasing order
sorted(S) ==
    IF S = {} THEN <<>>
    ELSE LET m == CHOOSE x \in S : \A y \in S : x <= y
         IN  <<m>> \o sorted(S \ {m})

\* the nodes adjacent to i in the graph of A + A.T
adjacent(A, i) ==
    {d[2] : d \in {e \in DOMAIN A.data : e[1] = i /\ e[2] # i}}
    \cup {d[1] : d \in {e \in DOMAIN A.data : e[2] = i /\ e[1] # i}}

\* one step of a breadth-first traversal, on st = [order, head]: the next
\* node of the order is expanded, or, when none is left, the unvisited node
\* of least index becomes the next root
level_step(A, st) ==
    LET visited == {st.order[m] : m \in 1 .. Len(st.order)}
        rest    == (0 .. A.shape - 1) \ visited
    IN  IF rest = {} THEN st
        ELSE IF st.head > Len(st.order)
        THEN [st EXCEPT !.order =
                 Append(@, CHOOSE x \in rest : \A y \in rest : x <= y)]
        ELSE [order |-> st.order \o sorted(adjacent(A, st.order[st.head]) \ visited),
              head |-> st.head + 1]

\* steps level_step's, one after the other
RECURSIVE level_steps(_, _, _)
level_steps(A, st, steps) ==
    IF steps <= 0 THEN st
    ELSE IF steps = 1 THEN level_step(A, st)
    ELSE LET half == level_steps(A, st, steps \div 2)
         IN  Then(half, level_steps(A, half, steps - steps \div 2))

\* breadth-first level order: roots taken in index order, one per component
\* (every node is appended once and expanded once: 2*N steps end it)
level_order(A) == level_steps(A, [order |-> <<>>, head |-> 1], 2 * A.shape).order

\* scipy.sparse.csgraph.reverse_cuthill_mckee(self.matrix): a permutation of
\* 0 .. N-1 as an array.  The library orders ties between nodes of equal
\* degree by an unstable sort, so its result is one of several orderings;
\* the model draws it from this family of permutations: the index order, its
\* reverse, a rotation, and the reversed breadth-first level order.
reverse_cuthill_mckee(A) ==
    LET N  == A.shape
        lo == level_order(A)
    IN  { ndarray(Table([a \in 0 .. N - 1 |-> a])),
          ndarray(Table([a \in 0 .. N - 1 |-> N - 1 - a])),
          ndarray(Table([a \in 0 .. N - 1 |-> (a + 1) % N])),
          ndarray(Table([a \in 0 .. N - 1 |-> lo[N - a]])) }

\* A[order, :]: row a of the result is row order[a] of A
index_rows(A, order) ==
    LET pos == UNION { {<<a, d[2]>> : d \in {e \in DOMAIN A.data : e[1] = order.array[a]}} :
                       a \in DOMAIN order.array }
    IN  [shape |-> A.shape,
         data |-> Table([e \in pos |-> A.data[<<order.array[e[1]], e[2]>>]])]

\* A[:, order]: column b of the result is column order[b] of A
index_cols(A, order) ==
    LET pos == UNION { {<<d[1], b>> : d \in {e \in DOMAIN A.data : e[2] = order.array[b]}} :
                       b \in DOMAIN order.array }
    IN  [shape |-> A.shape,
         data |-> Table([e \in pos |-> A.data[<<e[1], order.array[e[2]]>>]])]

\* return self.matrix[rcm_order, :], the columns left in place
reorder_rows_only(matrix, order) == index_rows(matrix, order)

\* return self.matrix[rcm_order, :][:, rcm_order]
reorder(matrix, order) == index_cols(index_rows(matrix, order), order)

-----------------------------------------------------------------------------
(* Problem.cholesky *)

\* An entry of the factor is kept as its sign: 1, -1, or Mixed when the terms
\* of its formula have both signs (its value is then not determined by signs).
Mixed == 2

Sgn(v) == IF v > 0 THEN 1 ELSE IF v < 0 THEN -1 ELSE 0

SgnProd(a, b) == IF a = Mixed \/ b = Mixed THEN Mixed ELSE a * b

SgnNeg(a) == IF a = Mixed THEN Mixed ELSE 0 - a

\* the sign of a sum whose nonzero terms have the signs in T
SgnSum(T) ==
    IF Mixed \in T \/ {1, -1} \subseteq T THEN Mixed
    ELSE IF 1 \in T THEN 1 ELSE -1

\* Column j of the factor below the diagonal, from the columns L[0..j-1]:
\*   L[i,j] = (A[i,j] - SUM_{k<j} L[i,k]*L[j,k]) / L[j,j],  L[j,j] > 0.
\* Only the lower triangle of A is read.
cholesky_column(A, L, j) ==
    LET K    == {k \in DOMAIN L : j \in DOMAIN L[k]}
        rows == {d[1] : d \in {e \in DOMAIN A.data : e[2] = j /\ e[1] > j}}
                \cup UNION {{i \in DOMAIN L[k] : i > j} : k \in K}
        T(i) == ({Sgn(Get(A, i, j))} \ {0})
                \cup {SgnNeg(SgnProd(L[k][i], L[k][j])) :
                         k \in {c \in K : i \in DOMAIN L[c]}}
    IN  Table([i \in rows |-> SgnSum(T(i))])

\* the columns L[0..j-1] with column j added
cholesky_extend(A, L, j) ==
    LET col == cholesky_column(A, L, j)
    IN  Table([k \in 0 .. j |-> IF k = j THEN col ELSE L[k]])

\* columns lo .. hi, in increasing order
RECURSIVE cholesky_columns(_, _, _, _)
cholesky_columns(A, L, lo, hi) ==
    IF lo > hi THEN L
    ELSE IF lo = hi THEN cholesky_extend(A, L, lo)
    ELSE LET mid  == (lo + hi) \div 2
             half == cholesky_columns(A, L, lo, mid)
         IN  Then(half, cholesky_columns(A, half, mid + 1, hi))

\* np.linalg.cholesky(matrix.toarray()): the lower-triangular factor, as the
\* signs of its nonzero entries; the diagonal of a factor is positive.
\* LinAlgError is raised when the matrix is not positive definite, which a
\* non-positive diagonal entry already decides.
linalg_cholesky(A) ==
    LET L == cholesky_columns(A, Table([k \in {} |-> 0]), 0, A.shape - 1)
        pos == {<<j, j>> : j \in 0 .. A.shape - 1}
               \cup UNION {{<<i, j>> : i \in DOMAIN L[j]} : j \in 0 .. A.shape - 1}
    IN  [shape |-> A.shape,
         data |-> Table([e \in pos |-> IF e[1] = e[2] THEN 1 ELSE L[e[2]][e[1]]])]

\* cholesky(self, matrix): the factor (the time taken is not modelled)
cholesky(matrix) ==
    IF \E j \in 0 .. matrix.shape - 1 : Get(matrix, j, j) <= 0
    THEN [raises |-> TRUE, cholesky_factor |-> None]
    ELSE [raises |-> FALSE, cholesky_factor |-> linalg_cholesky(matrix)]

\* np.count_nonzero(L)
count_nonzero(L) == Cardinality(DOMAIN L.data)

\* no entry of L is a sum of terms of both signs: the entries kept are then
\* exactly the nonzero entries of the numerical factor
SignsDetermined(L) == \A e \in DOMAIN L.data : L.data[e] # Mixed

-----------------------------------------------------------------------------
(* Methods of a constructed instance.  A method is an operator from the     *)
(* instance (the record of its attributes) to the instance it leaves and    *)
(* the value it returns.                                                    *)

RECURSIVE gcd(_, _)
gcd(a, b) == IF b = 0 THEN a ELSE gcd(b, a % b)

\* nnz_C / nnz_A: the quotient of two positive counts, as the fraction in
\* lowest terms (two quotients are the same float exactly when these agree)
true_divide(nnz_C, nnz_A) ==
    LET g == gcd(nnz_C, nnz_A) IN <<nnz_C \div g, nnz_A \div g>>

\* fill_in_ratio dividing by the size of the dense matrix
fill_in_ratio_dense(slf, use_reordered) ==
    LET nnz_A == slf.matrix.shape * slf.matrix.shape
        nnz_C == IF use_reordered THEN nnz(slf.reordered_matrix)
                                  ELSE count_nonzero(slf.cholesky_factor)
    IN  [self |-> slf, value |-> true_divide(nnz_C, nnz_A)]

\* fill_in_ratio swapping the reordered matrix in for the computation
fill_in_ratio_swapping(slf, use_reordered) ==
    LET nnz_A == IF use_reordered THEN nnz(slf.reordered_matrix) ELSE nnz(slf.matrix)
        nnz_C == IF use_reordered THEN nnz(slf.reordered_matrix)
                                  ELSE count_nonzero(slf.cholesky_factor)
    IN  [self |-> IF use_reordered
                  THEN [slf EXCEPT !.matrix = slf.reordered_matrix] ELSE slf,
         value |-> true_divide(nnz_C, nnz_A)]

fill_in_ratio(slf, use_reordered) ==
    LET nnz_A == IF use_reordered THEN nnz(slf.reordered_matrix) ELSE nnz(slf.matrix)
        nnz_C == IF use_reordered THEN nnz(slf.reordered_matrix)
                            ELSE count_nonzero(slf.cholesky_factor)
    IN  [self |-> slf, value |-> true_divide(nnz_C, nnz_A)]

\* forward_substitution(L, b): y with L y = b, as the term naming its inputs
\* (y is a fresh array: np.zeros_like(b))
forward_substitution(L, b) == [solve |-> "forward", L |-> L, b |-> b]

\* backward_substitution(L_T, y): x with L_T x = y, as the term naming its
\* inputs (x is a fresh array)
backward_substitution(L_T, y) == [solve |-> "backward", L_T |-> L_T, y |-> y]

\* L.T
transpose(L) ==
    [shape |-> L.shape,
     data |-> Table([e \in {<<d[2], d[1]>> : d \in DOMAIN L.data} |->
                        L.data[<<e[2], e[1]>>]])]

solve_cholesky(slf) ==
    LET y == forward_substitution(slf.cholesky_factor, slf.rhs)
        x == backward_substitution(transpose(slf.cholesky_factor), y)
    IN  [self |-> slf, value |-> x]

\* exact_solution(n_elements): math.sin(x * y [* z]) at every grid point
exact_solution(slf, n_elements) ==
    [self |-> slf,
     value |-> IF slf.dimension \in {2, 3}
               THEN ndarray(Table([p \in 0 .. num_points_of(n_elements, slf.dimension) - 1
                                      |-> U0(p)]))
               ELSE None]

\* E3, reorder=True: problem.matrix = problem.reordered_matrix
E3_assign_matrix(slf) == [slf EXCEPT !.matrix = slf.reordered_matrix]

\* the instances E3 works on: Problem(n_elements, 3), n_elements = 2*p - 1
\* for p >= 2
E3_instance(slf) ==
    slf.dimension = 3 /\ slf.n_elements >= 3 /\ slf.n_elements % 2 = 1

-----------------------------------------------------------------------------
(* The state machine *)

\* Most calls of one kind counted in a run of fill_in_ratio / solve_cholesky
\* calls.
MaxCalls == 2

NoRet == [op |-> "none"]

\* Problem(n_elements, dimension): n_elements and dimension are stored,
\* nothing else is assigned yet
Init ==
    /\ \E n \in 1 .. MaxN, d \in Dimensions :
         self = [n_elements |-> n, dimension |-> d,
                 matrix |-> Unset, rhs |-> Unset, reordered_matrix |-> Unset,
                 cholesky_factor |-> Unset, cholesky_factor_reorderd |-> Unset]
    /\ pc = "start"
    /\ raised = "none"
    /\ rcm_order = Unset
    /\ ret = NoRet
    /\ snap = None

\* self.matrix, self.rhs = self.build_matrix_and_rhs(n_elements, dimension)
Build ==
    /\ pc = "start"
    /\ LET r == build_matrix_and_rhs(self.n_elements, self.dimension)
       IN  self' = [self EXCEPT !.matrix = r.matrix, !.rhs = r.rhs]
    /\ pc' = "built"
    /\ UNCHANGED <<raised, rcm_order, ret, snap>>

\* self.reordered_matrix = self.reorder()
Reorder ==
    /\ pc = "built"
    /\ ~IsNone(self.matrix)
    /\ \E order \in reverse_cuthill_mckee(self.matrix) :
         /\ rcm_order' = order
         /\ self' = [self EXCEPT !.reordered_matrix = reorder(self.matrix, order)]
    /\ pc' = "reordered"
    /\ UNCHANGED <<raised, ret, snap>>

\* self.reorder() on a matrix that is None: reverse_cuthill_mckee raises
\* (its input is not a sparse matrix) and the constructor ends
ReorderRaises ==
    /\ pc = "built"
    /\ IsNone(self.matrix)
    /\ pc' = "error"
    /\ raised' = "reorder"
    /\ UNCHANGED <<self, rcm_order, ret, snap>>

\* self.cholesky_factor, self.cholesky_time = self.cholesky(self.matrix)
Factor ==
    /\ pc = "reordered"
    /\ LET r == cholesky(self.matrix)
       IN  IF r.raises
           THEN pc' = "error" /\ raised' = "cholesky" /\ self' = self
           ELSE /\ pc' = "factored"
                /\ raised' = raised
                /\ self' = [self EXCEPT !.cholesky_factor = r.cholesky_factor]
    /\ UNCHANGED <<rcm_order, ret, snap>>

\* self.cholesky_factor_reorderd, self.cholesky_time_reordered =
\*     self.cholesky(self.reordered_matrix)
FactorReordered ==
    /\ pc = "factored"
    /\ LET r == cholesky(self.reordered_matrix)
       IN  IF r.raises
           THEN pc' = "error" /\ raised' = "cholesky" /\ self' = self
           ELSE /\ pc' = "ready"
                /\ raised' = raised
                /\ self' = [self EXCEPT !.cholesky_factor_reorderd = r.cholesky_factor]
    /\ UNCHANGED <<rcm_order, ret, snap>>

\* the bookkeeping of a fill_in_ratio call: the first call of a run records
\* the instance; each flag's first value in the run is kept (as a set of at
\* most one value)
snap_fill(use_reordered, before, value) ==
    IF IsNone(snap)
    THEN [self |-> before,
          value |-> [b \in BOOLEAN |-> IF b = use_reordered THEN {value} ELSE {}],
          calls |-> [b \in BOOLEAN |-> IF b = use_reordered THEN 1 ELSE 0],
          solves |-> 0]
    ELSE [snap EXCEPT !.value[use_reordered] = IF @ = {} THEN {value} ELSE @,
                      !.calls[use_reordered] = @ + 1]

\* problem.fill_in_ratio(reorder)
FillInRatio(use_reordered) ==
    /\ pc = "ready"
    /\ ~IsNone(snap) => snap.calls[use_reordered] < MaxCalls
    /\ LET r == fill_in_ratio(self, use_reordered)
       IN  /\ self' = r.self
           /\ ret' = [op |-> "fill_in_ratio", reorder |-> use_reordered, value |-> r.value]
           /\ snap' = snap_fill(use_reordered, self, r.value)
    /\ UNCHANGED <<pc, raised, rcm_order>>

\* problem.solve_cholesky()
SolveCholesky ==
    /\ pc = "ready"
    /\ ~IsNone(snap) => snap.solves < MaxCalls
    /\ LET r == solve_cholesky(self)
       IN  /\ self' = r.self
           /\ ret' = [op |-> "solve_cholesky", value |-> r.value]
    /\ snap' = IF IsNone(snap) THEN None ELSE [snap EXCEPT !.solves = @ + 1]
    /\ UNCHANGED <<pc, raised, rcm_order>>

\* problem.exact_solution(n_elements), called with the instance's n_elements
ExactSolution ==
    /\ pc = "ready"
    /\ LET r == exact_solution(self, self.n_elements)
       IN  /\ self' = r.self
           /\ ret' = [op |-> "exact_solution", value |-> r.value]
    /\ snap' = None
    /\ UNCHANGED <<pc, raised, rcm_order>>

\* E3: _, cholesky_time = problem.cholesky(problem.matrix); the factor
\* returned is dropped
CholeskyCall ==
    /\ pc = "ready"
    /\ ret' = [op |-> "cholesky", value |-> cholesky(self.matrix).raises]
    /\ snap' = None
    /\ UNCHANGED <<self, pc, raised, rcm_order>>

\* E3: if reorder: problem.matrix = problem.reordered_matrix
E3Reassign ==
    /\ pc = "ready"
    /\ E3_instance(self)
    /\ self' = E3_assign_matrix(self)
    /\ ret' = [op |-> "E3_assign_matrix"]
    /\ snap' = None
    /\ UNCHANGED <<pc, raised, rcm_order>>

Next ==
    \/ Build
    \/ Reorder
    \/ ReorderRaises
    \/ Factor
    \/ FactorReordered
    \/ \E use_reordered \in BOOLEAN : FillInRatio(use_reordered)
    \/ SolveCholesky
    \/ ExactSolution
    \/ CholeskyCall
    \/ E3Reassign

Spec == Init /\ [][Next]_vars

-----------------------------------------------------------------------------
(* The grid, stated from its coordinates: the reference for the properties *)
(* below.                                                                  *)

Supported == self.dimension \in {2, 3}

\* n^d
Pow(n, d) == IF d = 2 THEN n * n ELSE n * n * n

\* the unknown indices [0, n^D) of the instance
Points == 0 .. Pow(self.n_elements, self.dimension) - 1

\* the coordinate tuples [0,n)^D
Grid == [1 .. self.dimension -> 0 .. self.n_elements - 1]

\* p = i*n + j (D = 2), p = i*n^2 + j*n + k (D = 3)
IndexOf(c) ==
    IF self.dimension = 2
    THEN c[1] * self.n_elements + c[2]
    ELSE c[1] * self.n_elements * self.n_elements + c[2] * self.n_elements + c[3]

\* the coordinates of p
CoordsOf(p) == CHOOSE c \in Grid : IndexOf(c) = p

\* the indices of the grid points one step from p along one axis
AxisNeighbours(p) ==
    LET c == CoordsOf(p)
    IN  { IndexOf([c EXCEPT ![k] = @ + s]) :
            <<k, s>> \in { ks \in (1 .. self.dimension) \X {-1, 1} :
                             c[ks[1]] + ks[2] \in 0 .. self.n_elements - 1 } }

\* p lies on a face of the grid
OnFace(p) ==
    \E k \in 1 .. self.dimension : CoordsOf(p)[k] \in {0, self.n_elements - 1}

Elements(seq) == {seq[m] : m \in 1 .. Len(seq)}

Symmetric(A) == \A e \in DOMAIN A.data : Get(A, e[2], e[1]) = A.data[e]

\* the state right after build_matrix_and_rhs returned, for D in {2,3}
Built == pc = "built" /\ Supported

-----------------------------------------------------------------------------
(* C1 (as amended).  fill_in_ratio(reorder=True) returns exactly 1.0;       *)
(* fill_in_ratio(reorder=False) returns a value that is at least            *)
(* (nnz(matrix) + N) / (2 * nnz(matrix)), that is, the factor has at least  *)
(* as many nonzeros as the lower triangle of the matrix with its diagonal.  *)
C1_FillInRatioLowerBound ==
    (pc = "ready" /\ ret.op = "fill_in_ratio") =>
        IF ret.reorder
        THEN ret.value = <<1, 1>>
        ELSE ret.value[1] * (2 * nnz(self.matrix))
                 >= ret.value[2] * (nnz(self.matrix) + self.matrix.shape)

\* fill_in_ratio(reorder=False) has returned on a matrix with off-diagonal
\* entries
C1_Witness ==
    /\ pc = "ready" /\ ret.op = "fill_in_ratio" /\ ~ret.reorder
    /\ nnz(self.matrix) > self.matrix.shape

\* C1 as stated: fill_in_ratio returns a value >= 1.0 for both flags.
C1_AsStated ==
    (pc = "ready" /\ ret.op = "fill_in_ratio") => ret.value[1] >= ret.value[2]

(* C2 as stated.  With a dimension other than 2 or 3 the construction ends  *)
(* in an error raised by build_matrix_and_rhs itself, before reorder is     *)
(* attempted: the assembler never returns.                                  *)
C2_AsStated ==
    ~Supported => \/ pc = "start"
                  \/ pc = "error" /\ raised = "build_matrix_and_rhs"

(* C3.  The matrix returned by build_matrix_and_rhs is symmetric:           *)
(* A[p,q] = A[q,p] for all unknown indices p, q.                            *)
C3_MatrixSymmetric ==
    Built => /\ self.matrix.shape = Pow(self.n_elements, self.dimension)
             /\ \A p \in Points, q \in Points :
                    Get(self.matrix, p, q) = Get(self.matrix, q, p)

\* a matrix with off-diagonal entries has been returned
C3_Witness ==
    Built /\ \E e \in DOMAIN self.matrix.data : e[1] # e[2]

(* C4.  The returned matrix is the reference matrix: a boundary index has   *)
(* diagonal 1 and nothing else in its row and column; an interior index has *)
(* diagonal 2D, -1 exactly at its interior axis neighbours, 0 elsewhere.    *)
C4_ReferenceMatrix ==
    Built =>
      \A p \in Points :
        IF OnFace(p)
        THEN /\ Get(self.matrix, p, p) = 1
             /\ \A q \in Points \ {p} :
                    Get(self.matrix, p, q) = 0 /\ Get(self.matrix, q, p) = 0
        ELSE /\ Get(self.matrix, p, p) = 2 * self.dimension
             /\ LET nb == {q \in AxisNeighbours(p) : ~OnFace(q)}
                IN  \A q \in Points \ {p} :
                       Get(self.matrix, p, q) = IF q \in nb THEN -1 ELSE 0

\* a 3D matrix with interior points that are neighbours has been returned
C4_Witness ==
    /\ Built /\ self.dimension = 3
    /\ \E p \in Points : ~OnFace(p) /\ \E q \in AxisNeighbours(p) : ~OnFace(q)

(* C5.  The returned right-hand side: b[p] = u0(x_p) at a boundary p; at an *)
(* interior q, f(x_q)*h^2 plus u0(x_p) once for each boundary axis          *)
(* neighbour p of q and nothing else.  For n = 3, D = 2 the one interior    *)
(* unknown, index 4 with diagonal 4, receives its 4 boundary neighbours.    *)
C5_ReferenceRhs ==
    Built =>
      /\ \A p \in Points :
           self.rhs.array[p] =
             IF OnFace(p)
             THEN Table([s \in {<<"u0", p>>} |-> 1])
             ELSE Table([s \in {<<"fh2", p>>}
                              \cup {<<"u0", q>> : q \in {r \in AxisNeighbours(p) : OnFace(r)}}
                           |-> 1])
      /\ (self.n_elements = 3 /\ self.dimension = 2) =>
           /\ {p \in Points : ~OnFace(p)} = {4}
           /\ Get(self.matrix, 4, 4) = 4
           /\ DOMAIN self.rhs.array[4] =
                {<<"fh2", 4>>, <<"u0", 1>>, <<"u0", 3>>, <<"u0", 5>>, <<"u0", 7>>}

\* an interior point with a boundary neighbour and an interior neighbour
C5_Witness ==
    /\ Built
    /\ \E p \in Points :
         /\ ~OnFace(p)
         /\ \E q \in AxisNeighbours(p) : OnFace(q)
         /\ \E q \in AxisNeighbours(p) : ~OnFace(q)

(* C6 as stated.  fill_in_ratio(reorder=True) returns the nonzero count of  *)
(* cholesky_factor_reorderd divided by the nonzero count of the reordered   *)
(* matrix.                                                                  *)
C6_AsStated ==
    (pc = "ready" /\ ret.op = "fill_in_ratio" /\ ret.reorder) =>
        ret.value = true_divide(count_nonzero(self.cholesky_factor_reorderd),
                                nnz(self.reordered_matrix))

(* C7.  reorder returns A' with A'[a,b] = A[pi(a), pi(b)] for the ordering  *)
(* pi, a bijection on [0,N): A' is symmetric when A is, has as many         *)
(* nonzeros and the same multiset of diagonal entries, and A is unchanged.  *)
C7_SymmetricPermutation ==
    pc = "reordered" =>
      LET A  == self.matrix
          A2 == self.reordered_matrix
          pi == rcm_order.array
      IN  /\ DOMAIN pi = Points
          /\ {pi[a] : a \in Points} = Points
          /\ A2.shape = A.shape
          /\ \A a \in Points, b \in Points : Get(A2, a, b) = Get(A, pi[a], pi[b])
          /\ Symmetric(A) => Symmetric(A2)
          /\ nnz(A2) = nnz(A)
          /\ \A v \in {Get(A, a, a) : a \in Points} \cup {Get(A2, a, a) : a \in Points} :
                Cardinality({a \in Points : Get(A, a, a) = v})
                  = Cardinality({a \in Points : Get(A2, a, a) = v})
          /\ A = build_matrix_and_rhs(self.n_elements, self.dimension).matrix

\* a matrix with off-diagonal entries has been reordered by an ordering that
\* is not the identity
C7_Witness ==
    /\ pc = "reordered"
    /\ nnz(self.matrix) > self.matrix.shape
    /\ \E a \in Points : rcm_order.array[a] # a
    /\ self.reordered_matrix # self.matrix

(* C8 as stated.  After construction the matrix and rhs are never modified  *)
(* or reassigned, so cholesky_factor is the factor of the current matrix.   *)
C8_AsStated ==
    pc = "ready" =>
      LET b == build_matrix_and_rhs(self.n_elements, self.dimension)
      IN  /\ self.matrix = b.matrix
          /\ self.rhs = b.rhs
          /\ self.cholesky_factor = cholesky(self.matrix).cholesky_factor

(* C9.  In a run of fill_in_ratio calls, with solve_cholesky calls between  *)
(* them, every call with the same flag returns the value the first one      *)
(* returned, and the instance (matrix, reordered_matrix, rhs, both factors) *)
(* stays as it was before the first call.                                   *)
C9_FillInRatioIdempotent ==
    (pc = "ready" /\ ~IsNone(snap)) =>
        /\ self = snap.self
        /\ ret.op = "fill_in_ratio" => snap.value[ret.reorder] = {ret.value}

\* fill_in_ratio(True), solve_cholesky, fill_in_ratio(True) on a matrix with
\* off-diagonal entries
C9_Witness ==
    /\ pc = "ready" /\ ~IsNone(snap)
    /\ ret.op = "fill_in_ratio" /\ ret.reorder
    /\ snap.calls[TRUE] = 2 /\ snap.calls[FALSE] = 0 /\ snap.solves >= 1
    /\ nnz(self.matrix) > self.matrix.shape

(* C10.  get_neighbors_2d and get_neighbors_3d return exactly the indices   *)
(* of the grid points one step from p along one axis, each once and none    *)
(* outside [0, n^D), without wrap-around, and the relation is symmetric.    *)
C10_Neighbours ==
    Built =>
      \A p \in Points :
        LET nb == IF self.dimension = 2
                  THEN get_neighbors_2d(p, self.n_elements)
                  ELSE get_neighbors_3d(p, self.n_elements)
            nbs(q) == IF self.dimension = 2
                      THEN Elements(get_neighbors_2d(q, self.n_elements))
                      ELSE Elements(get_neighbors_3d(q, self.n_elements))
        IN  /\ Elements(nb) = AxisNeighbours(p)
            /\ Cardinality(Elements(nb)) = Len(nb)
            /\ Elements(nb) \subseteq Points
            /\ (p % self.n_elements = 0) => (p - 1) \notin Elements(nb)
            /\ (p % self.n_elements = self.n_elements - 1) => (p + 1) \notin Elements(nb)
            /\ \A q \in Elements(nb) : p \in nbs(q)

\* the neighbours were taken on a 3D grid that has a point with 6 of them
\* and a point at the end of a grid line
C10_Witness ==
    /\ Built /\ self.dimension = 3 /\ self.n_elements >= 3
    /\ \E p \in Points : Len(get_neighbors_3d(p, self.n_elements)) = 6

=============================================================================
